---- MODULE Spec2Model ----
(***************************************************************************)
(* A model of catboost/cuda/cuda_lib/mpi/mpi_manager.h: the TMpiRequest    *)
(* handle (completion flag, token, status), the single and chunked         *)
(* asynchronous transfers of TMpiManager, the task dispatcher and the tag  *)
(* allocator.                                                              *)
(*                                                                         *)
(* Six specifications share the variables; each one drives its own part    *)
(* of the state and leaves the rest alone:                                 *)
(*   Spec        the life of TMpiRequest objects on one process            *)
(*   SpecChunk   one chunked WriteAsync / ReadAsync exchange between two   *)
(*               processes over the transport                              *)
(*   SpecLayout  the chunked calls with and without a block size           *)
(*   SpecMaster  NextCommunicationTag, GetTaskTag, SendTask, GetDevices    *)
(*   SpecPair    two chunked exchanges at once on two tags                 *)
(*   SpecMsg     Send<T> / Receive<T>, DynamicReceive and HasMessage       *)
(***************************************************************************)
EXTENDS Integers, Sequences, FiniteSets, TLC

VARIABLES
    requests,     \* Spec: the TMpiRequest objects, by handle
    mpi,          \* Spec: the transport's table of request tokens
    spinning,     \* Spec: the handle whose Wait(interval) is spinning, or 0
    HostId,       \* SpecMaster: TMpiManager::HostId of the process
    Counter,      \* SpecMaster: TMpiManager::Counter, as static_cast<int> sees it
    UseBSendForTasks, \* SpecMaster: TMpiManager::UseBSendForTasks
    callers,      \* SpecMaster: each thread's place in NextCommunicationTag
    tags,         \* SpecMaster: the tags returned by the latest calls, in order
    inboxes,      \* SpecMaster: the local device ids tasks were sent to
    lap,          \* SpecMaster: how far the counter has been run ahead
    sendData,     \* SpecChunk: the sender's buffer (SpecPair: by tag,
                  \* as the five below)
    recvData,     \* SpecChunk: the receiver's buffer
    writer,       \* SpecChunk: the sender's place in the chunked WriteAsync
    reader,       \* SpecChunk: the receiver's place in the chunked ReadAsync
    sendRequests, \* SpecChunk: the sender's TVector<TMpiRequest>
    recvRequests, \* SpecChunk: the receiver's TVector<TMpiRequest>
    wire,         \* SpecChunk, SpecMsg: the messages sent and not yet
                  \* received, in order
    posted,       \* SpecChunk, SpecMsg: the receives posted and not yet
                  \* matched, in order
    rx,           \* SpecMsg: each receiving thread's place in Receive<T>
    sent,         \* SpecMsg: the values sent with Send, by tag, in order
    received,     \* SpecMsg: the values Receive<T> returned, by tag, in order
    tagType,      \* SpecMsg: the type T agreed on for each tag
    last,         \* the last call made: what it was and how it ended
    proc          \* "running", "crashed" (failed assertion) or "mpi_aborted"

reqVars == <<requests, mpi, spinning>>
masterVars == <<HostId, Counter, UseBSendForTasks, callers, tags, inboxes, lap>>
chunkVars == <<sendData, recvData, writer, reader, sendRequests, recvRequests,
               wire, posted>>
msgVars == <<rx, sent, received, tagType>>
vars == <<requests, mpi, spinning, HostId, Counter, UseBSendForTasks, callers,
          tags, inboxes, lap, sendData, recvData, writer, reader, sendRequests,
          recvRequests, wire, posted, rx, sent, received, tagType, last, proc>>

(***************************************************************************)
(* Bounds of the model.                                                    *)
(***************************************************************************)
\* TMpiRequest objects that can exist at once
NumHandles == 2
\* transfers (MPI_Request tokens) one run may start
MaxTokens == 2
\* threads of the master that allocate tags
NumThreads == 2
\* tags allocated in a row before the counter is run ahead
MaxCalls == 3
\* log2 of the block ceiling of the chunked transfers, which stands for the
\* 30 of 1 << 30; int is two bits wider, as 32 is to 30
CapBits == 1
\* values sent with Send in one run
MaxSends == 3
\* sizeof of the fixed-layout type, and the most elements a serialized
\* value has
MaxLen == 3
Handles == 1..NumHandles
Tokens == 1..MaxTokens

Min(a, b) == IF a < b THEN a ELSE b

\* The length of the message that arrives for transfer t of Spec, which the
\* transport reports in the status once the transfer is done; the transfers
\* differ in it.
Count(t) == t - 1

\* An entry of the transport's table of MPI_Request tokens: free, active,
\* done or cancelled, and the byte count of the status once done.
Token(st, count) == [st |-> st, count |-> count]

(***************************************************************************)
(* The checking macros. Their definitions are outside the files modelled;  *)
(* each is taken as the check its name says: it fails when its condition   *)
(* is false. Y_ASSERT and Y_VERIFY end the process, CB_ENSURE throws.      *)
(***************************************************************************)
Y_ASSERT_Fails(cond) == ~cond
Y_VERIFY_Fails(cond) == ~cond
CB_ENSURE_Throws(cond) == ~cond

(***************************************************************************)
(* TMpiRequest. Flag is -1 (empty), 0 (pending) or 1 (complete). Request   *)
(* is the token (0: never set, indeterminate). Status is the byte count of *)
(* the status record (-1: never written, indeterminate).                   *)
(***************************************************************************)
EmptyRequest == [alive |-> TRUE, Flag |-> -1, Request |-> 0, Status |-> -1]
DeadRequest == [alive |-> FALSE, Flag |-> -1, Request |-> 0, Status |-> -1]
\* TMpiRequest(MPI_Request request): Flag(0), Request(request); Status is not set
NewRequest(t) == [alive |-> TRUE, Flag |-> 0, Request |-> t, Status |-> -1]

\* What a method call did: how it ended, the object afterwards, the value
\* returned (-1: none; a bool as 0 or 1) and the transport calls it made.
Result(outcome, r, ret, calls) ==
    [outcome |-> outcome, req |-> r, ret |-> ret, mpi |-> calls]

\* IsComplete() without its two checks of the empty state: static_cast<bool>
\* of the flag -1 is true.
IsCompleteUnchecked(r, m) ==
    IF r.Flag = 0
    THEN LET flag == IF m[r.Request].st = "done" THEN 1 ELSE 0
         IN  Result("ok",
                    [r EXCEPT !.Flag = flag,
                              !.Status = IF flag = 1 THEN m[r.Request].count
                                         ELSE @],
                    flag, <<"MPI_Test">>)
    ELSE Result("ok", r, 1, <<>>)

\* IsComplete() asking the transport on every call, known complete or not.
IsCompleteAlwaysTests(r, m) ==
    IF Y_ASSERT_Fails(r.Flag # -1) THEN Result("fatal", r, -1, <<>>)
    ELSE LET flag == IF m[r.Request].st = "done" THEN 1 ELSE 0
         IN  Result("ok", [r EXCEPT !.Flag = flag], flag, <<"MPI_Test">>)

\* bool IsComplete() const
IsCompleteCall(r, m) ==
    IF Y_ASSERT_Fails(r.Flag # -1) THEN Result("fatal", r, -1, <<>>)
    ELSE IF CB_ENSURE_Throws(r.Flag # -1) THEN Result("throw", r, -1, <<>>)
    ELSE IF r.Flag = 0
         THEN LET flag == IF m[r.Request].st = "done" THEN 1 ELSE 0
              IN  Result("ok",
                         [r EXCEPT !.Flag = flag,
                                   !.Status = IF flag = 1 THEN m[r.Request].count
                                              ELSE @],
                         flag, <<"MPI_Test">>)
         ELSE Result("ok", r, 1, <<>>)

\* void WaitComplete() const; MPI_Wait returns once the transfer is done
WaitCompleteBlocked(r, m) == r.Flag = 0 /\ m[r.Request].st # "done"

WaitCompleteCall(r, m) ==
    IF CB_ENSURE_Throws(r.Flag # -1) THEN Result("throw", r, -1, <<>>)
    ELSE IF r.Flag = 0
         THEN Result("ok",
                     [r EXCEPT !.Flag = 1, !.Status = m[r.Request].count],
                     -1, <<"MPI_Wait">>)
         ELSE Result("ok", r, -1, <<>>)

\* Abort() cancelling whatever is not empty, complete or not.
AbortAnyCreated(r) ==
    IF CB_ENSURE_Throws(r.Flag # -1) THEN Result("throw", r, -1, <<>>)
    ELSE Result("ok", [r EXCEPT !.Flag = -1], -1, <<"MPI_Cancel">>)

\* Abort() that cancels and forgets to clear the flag.
AbortKeepsFlag(r) ==
    IF CB_ENSURE_Throws(r.Flag # -1) THEN Result("throw", r, -1, <<>>)
    ELSE IF r.Flag = 0
         THEN Result("ok", r, -1, <<"MPI_Cancel">>)
         ELSE Result("ok", r, -1, <<>>)

\* void Abort()
AbortCall(r) ==
    IF CB_ENSURE_Throws(r.Flag # -1) THEN Result("throw", r, -1, <<>>)
    ELSE IF r.Flag = 0
         THEN Result("ok", [r EXCEPT !.Flag = -1], -1, <<"MPI_Cancel">>)
         ELSE Result("ok", r, -1, <<>>)

\* bool IsCreated()
IsCreatedCall(r) == Result("ok", r, IF r.Flag # -1 THEN 1 ELSE 0, <<>>)

\* A destructor that insists on a complete request, empty ones included.
DestructorVerifiesAll(r) ==
    IF Y_VERIFY_Fails(r.Flag = 1)
    THEN Result("fatal", r, -1, <<>>)
    ELSE Result("ok", DeadRequest, -1, <<>>)

\* ~TMpiRequest()
DestructorCall(r) ==
    IF r.Flag # -1 /\ Y_VERIFY_Fails(r.Flag # 0)
    THEN Result("fatal", r, -1, <<>>)
    ELSE Result("ok", DeadRequest, -1, <<>>)

\* A Clear() that leaves the object as it is.
ClearNothing(r) == r

\* void Clear()
Clear(r) == [r EXCEPT !.Flag = -1]

\* the body shared by the move constructor and the move assignment
MoveFrom(other) ==
    [alive |-> TRUE, Flag |-> other.Flag, Request |-> other.Request,
     Status |-> other.Status]

(***************************************************************************)
(* The record of the last call.                                            *)
(***************************************************************************)
Call(op, h, pre, res) ==
    [op |-> op, h |-> h, pre |-> pre, outcome |-> res.outcome,
     ret |-> res.ret, mpi |-> res.mpi]

NoCall == [op |-> "none", h |-> 0, pre |-> -1, outcome |-> "ok",
           ret |-> -1, mpi |-> <<>>]

Running == proc = "running"

\* A method call on the object h that ended as res: the object is updated,
\* and a failed assertion ends the process.
Finish(op, h, res) ==
    /\ requests' = [requests EXCEPT ![h] = res.req]
    /\ last' = Call(op, h, requests[h].Flag, res)
    /\ proc' = IF res.outcome = "fatal" THEN "crashed" ELSE proc

\* An MPI_SAFE_CALL that hands the error to the caller and goes on.
MpiFailureReturned(op, h) ==
    /\ last' = [op |-> op, h |-> h, pre |-> requests[h].Flag,
                outcome |-> "mpi_abort", ret |-> 1, mpi |-> <<>>]
    /\ proc' = proc

\* MPI_SAFE_CALL: the transport call returned an error: the whole group is
\* aborted, the call does not return.
MpiFailure(op, h) ==
    /\ last' = [op |-> op, h |-> h, pre |-> requests[h].Flag,
                outcome |-> "mpi_abort", ret |-> -1, mpi |-> <<>>]
    /\ proc' = "mpi_aborted"

\* The calling thread can call a method of the object h: the object exists
\* and the thread is not inside a spin loop.
Idle(h) == requests[h].alive /\ spinning = 0

(***************************************************************************)
(* TMpiManager on the master: the tag allocator and the task dispatcher.   *)
(* The numbers are the program's own; int is 32 bits wide.                 *)
(***************************************************************************)
IntMax == 2147483647
IntMin == -IntMax - 1
\* const int cycleLen = (1 << 16) - 1
CycleLen == 65535
\* the factor of tag << 10
TagShift == 1024
\* the bits of | 1023
TagLowBits == 1023
\* static const ui64 BufferSize = 32 * 1024 * 1024
BufferSize == 33554432

Threads == 1..NumThreads
NotCalling == [pc |-> "idle", tag |-> 0]

\* An IsMaster() that every host passes.
IsMasterOnEveryHost(hostId) == TRUE

\* bool IsMaster() const
IsMaster(hostId) == hostId = 0

\* AtomicIncrement(Counter) as static_cast<int> sees the new value: the
\* low 32 bits, which wrap from INT_MAX to INT_MIN.
AtomicIncrement(c) == IF c = IntMax THEN IntMin ELSE c + 1

\* The % of C++, which truncates towards zero (b > 0).
CRem(a, b) == IF a >= 0 THEN a % b ELSE -((((-(a + 1)) % b) + 1) % b)

\* The allocator without its last step: the bare residues 0, 1, 2, ...
TagUntransformed(t) == t

\* tag = (tag << 10) | 1023: the ten low bits of tag << 10 are clear, so
\* the | adds 1023 (for a negative tag too, in two's complement).
TagTransform(t) == t * TagShift + TagLowBits

\* Lines 286-288 on the value the increment returned. For INT_MIN the
\* negation overflows, which is undefined: a build that negates with
\* wrap-around keeps INT_MIN and goes on with a negative remainder; a
\* build that has concluded the value is not negative takes the remainder
\* of 2^31 unsigned.
TagsFor(raw) ==
    IF raw # IntMin
    THEN {TagTransform((IF raw < 0 THEN -raw ELSE raw) % CycleLen)}
    ELSE {TagTransform(CRem(IntMin, CycleLen)),
          TagTransform(((IntMax % CycleLen) + 1) % CycleLen)}

\* int GetTaskTag(const TDeviceId& deviceId)
GetTaskTag(localId) == localId + 1

\* The local device ids tasks are sent to, up to the first one whose inbox
\* tag has the allocator's ten low bits.
DeviceIds == {0, 1, TagLowBits - 2, TagLowBits - 1}
\* The sizes of the serialized tasks sent.
TaskSizes == {0, 1, BufferSize - 1, BufferSize, BufferSize + 1}

\* Counter values the counter is run ahead to, in the order it reaches
\* them: two calls before the end of the first cycle, one call before
\* INT_MAX, two calls before it is back at 0. The next three calls cross
\* the place each time.
Checkpoints == <<CycleLen - 2, IntMax - 1, -2>>

\* int NextCommunicationTag(), up to the increment
NextCommunicationTagIncrement(th) ==
    /\ Running
    /\ UNCHANGED <<reqVars, chunkVars, msgVars>>
    /\ callers[th].pc = "idle"
    /\ Len(tags) + Cardinality({u \in Threads : callers[u].pc # "idle"})
         < MaxCalls
    /\ IF Y_ASSERT_Fails(IsMaster(HostId))
       THEN /\ last' = [NoCall EXCEPT !.op = "NextCommunicationTag", !.h = th,
                                      !.outcome = "fatal"]
            /\ proc' = "crashed"
            /\ UNCHANGED <<masterVars, chunkVars, msgVars>>
       ELSE /\ Counter' = AtomicIncrement(Counter)
            /\ callers' = [callers EXCEPT ![th] =
                              [pc |-> "incremented", tag |-> Counter']]
            /\ last' = [NoCall EXCEPT !.op = "AtomicIncrement", !.h = th,
                                      !.ret = Counter']
            /\ UNCHANGED <<HostId, UseBSendForTasks, tags, inboxes, lap, proc>>

\* int NextCommunicationTag(), from the increment to the return
NextCommunicationTagReturn(th) ==
    /\ Running
    /\ UNCHANGED <<reqVars, chunkVars, msgVars>>
    /\ callers[th].pc = "incremented"
    /\ \E tag \in TagsFor(callers[th].tag) :
        /\ tags' = Append(tags, tag)
        /\ last' = [NoCall EXCEPT !.op = "NextCommunicationTag", !.h = th,
                                  !.pre = callers[th].tag, !.ret = tag]
    /\ callers' = [callers EXCEPT ![th] = NotCalling]
    /\ UNCHANGED <<HostId, Counter, UseBSendForTasks, inboxes, lap, proc>>

\* Many more calls of NextCommunicationTag are made, one after the other,
\* until the counter stands at the next checkpoint; the tags returned
\* before are by then further back than one cycle.
ManyCalls ==
    /\ Running
    /\ UNCHANGED <<reqVars, chunkVars, msgVars>>
    /\ IsMaster(HostId)
    /\ \A th \in Threads : callers[th].pc = "idle"
    /\ lap < Len(Checkpoints)
    /\ lap' = lap + 1
    /\ Counter' = Checkpoints[lap + 1]
    /\ tags' = <<>>
    /\ last' = [NoCall EXCEPT !.op = "ManyCalls"]
    /\ UNCHANGED <<HostId, UseBSendForTasks, callers, inboxes, proc>>

\* void SendTask(const TSerializedTask& task, const TDeviceId& deviceId);
\* the sizes sent are below 2^31, static_cast<int> keeps them.
SendTaskCall(hostId, taskSize, localId, bsend) ==
    IF Y_ASSERT_Fails(IsMaster(hostId)) THEN Result("fatal", localId, -1, <<>>)
    ELSE IF Y_ASSERT_Fails(taskSize < BufferSize)
         THEN Result("fatal", localId, -1, <<>>)
    ELSE IF Y_ASSERT_Fails(taskSize # 0) THEN Result("fatal", localId, -1, <<>>)
    ELSE IF Y_ASSERT_Fails(localId >= 0) THEN Result("fatal", localId, -1, <<>>)
    ELSE Result("ok", localId, GetTaskTag(localId),
                IF bsend THEN <<"MPI_Bsend">> ELSE <<"MPI_Send">>)

SendTask(taskSize, localId) ==
    /\ Running
    /\ UNCHANGED <<reqVars, chunkVars, msgVars>>
    /\ LET res == SendTaskCall(HostId, taskSize, localId, UseBSendForTasks)
       IN  \/ /\ last' = [op |-> "SendTask", h |-> localId, pre |-> taskSize,
                          outcome |-> res.outcome, ret |-> res.ret,
                          mpi |-> res.mpi]
              /\ proc' = IF res.outcome = "fatal" THEN "crashed" ELSE proc
              /\ inboxes' = IF res.outcome = "ok"
                            THEN inboxes \cup {localId} ELSE inboxes
           \/ /\ res.mpi # <<>>
              /\ last' = [op |-> "SendTask", h |-> localId, pre |-> taskSize,
                          outcome |-> "mpi_abort", ret |-> -1, mpi |-> <<>>]
              /\ proc' = "mpi_aborted"
              /\ UNCHANGED inboxes
    /\ UNCHANGED <<HostId, Counter, UseBSendForTasks, callers, tags, lap>>

\* const TVector<TDeviceId>& GetDevices() const, and GetDeviceProperties(),
\* which has the same body on DeviceProps: the value returned is 1 when
\* the vector is handed out.
GetDevicesCall(hostId) ==
    IF Y_ASSERT_Fails(IsMaster(hostId)) THEN Result("fatal", 0, -1, <<>>)
    ELSE Result("ok", 0, 1, <<>>)

MasterGetter(op) ==
    /\ Running
    /\ UNCHANGED <<reqVars, chunkVars, msgVars>>
    /\ LET res == GetDevicesCall(HostId)
       IN  /\ last' = [op |-> op, h |-> 0, pre |-> -1,
                       outcome |-> res.outcome, ret |-> res.ret,
                       mpi |-> res.mpi]
           /\ proc' = IF res.outcome = "fatal" THEN "crashed" ELSE proc
    /\ UNCHANGED masterVars

GetDevices == MasterGetter("GetDevices")

GetDeviceProperties == MasterGetter("GetDeviceProperties")

(***************************************************************************)
(* The operations on requests.                                             *)
(***************************************************************************)
\* TMpiRequest()
Construct(h) ==
    /\ Running
    /\ UNCHANGED <<masterVars, chunkVars, msgVars>>
    /\ ~requests[h].alive
    /\ requests' = [requests EXCEPT ![h] = EmptyRequest]
    /\ last' = [NoCall EXCEPT !.op = "Construct", !.h = h]
    /\ UNCHANGED <<mpi, spinning, proc>>

\* The single-message ReadAsync / WriteAsync: MPI_Irecv / MPI_Isend hands
\* out a token, the request returned is built on it.
StartTransfer(op, h) ==
    /\ Running
    /\ UNCHANGED <<masterVars, chunkVars, msgVars>>
    /\ ~requests[h].alive
    /\ \E t \in Tokens :
        /\ mpi[t].st = "free"
        /\ \A u \in Tokens : u < t => mpi[u].st # "free"
        /\ \/ /\ mpi' = [mpi EXCEPT ![t] = Token("active", 0)]
              /\ requests' = [requests EXCEPT ![h] = NewRequest(t)]
              /\ last' = [NoCall EXCEPT !.op = op, !.h = h]
              /\ UNCHANGED <<spinning, proc>>
           \/ /\ MpiFailure(op, h)
              /\ UNCHANGED reqVars

ReadAsync(h) == StartTransfer("ReadAsync", h)

WriteAsync(h) == StartTransfer("WriteAsync", h)

IsComplete(h) ==
    /\ Running
    /\ UNCHANGED <<masterVars, chunkVars, msgVars>>
    /\ Idle(h)
    /\ LET res == IsCompleteCall(requests[h], mpi)
       IN  \/ Finish("IsComplete", h, res) /\ UNCHANGED <<mpi, spinning>>
           \/ /\ res.mpi # <<>>
              /\ MpiFailure("IsComplete", h)
              /\ UNCHANGED reqVars

WaitComplete(h) ==
    /\ Running
    /\ UNCHANGED <<masterVars, chunkVars, msgVars>>
    /\ Idle(h)
    /\ LET res == WaitCompleteCall(requests[h], mpi)
       IN  \/ /\ ~WaitCompleteBlocked(requests[h], mpi)
              /\ Finish("WaitComplete", h, res)
              /\ UNCHANGED <<mpi, spinning>>
           \/ /\ res.mpi # <<>>
              /\ MpiFailure("WaitComplete", h)
              /\ UNCHANGED reqVars

\* ui64 ReceivedBytes() const: MPI_Get_count reads the status record; a
\* record that was never written holds any value.
ReceivedBytes(h) ==
    /\ Running
    /\ UNCHANGED <<masterVars, chunkVars, msgVars>>
    /\ Idle(h)
    /\ LET r == requests[h]
       IN  IF CB_ENSURE_Throws(r.Flag # -1)
           THEN /\ Finish("ReceivedBytes", h, Result("throw", r, -1, <<>>))
                /\ UNCHANGED <<mpi, spinning>>
           ELSE \/ /\ \E n \in 0..(MaxTokens - 1) :
                        /\ r.Status # -1 => n = r.Status
                        /\ Finish("ReceivedBytes", h,
                                  Result("ok", r, n, <<"MPI_Get_count">>))
                   /\ UNCHANGED <<mpi, spinning>>
                \/ /\ MpiFailure("ReceivedBytes", h)
                   /\ UNCHANGED reqVars

\* void Wait(const TDuration& interval): the spin loop is entered ...
Wait(h) ==
    /\ Running
    /\ UNCHANGED <<masterVars, chunkVars, msgVars>>
    /\ Idle(h)
    /\ spinning' = h
    /\ last' = [NoCall EXCEPT !.op = "Wait", !.h = h, !.pre = requests[h].Flag]
    /\ UNCHANGED <<requests, mpi, proc>>

\* ... calls IsComplete() and returns when that returns true ...
WaitSpin(h) ==
    /\ Running
    /\ UNCHANGED <<masterVars, chunkVars, msgVars>>
    /\ spinning = h
    /\ LET res == IsCompleteCall(requests[h], mpi)
       IN  \/ /\ Finish("WaitSpin", h, res)
              /\ spinning' = IF res.outcome = "ok" /\ res.ret = 0
                             THEN h ELSE 0
              /\ UNCHANGED mpi
           \/ /\ res.mpi # <<>>
              /\ MpiFailure("WaitSpin", h)
              /\ UNCHANGED reqVars

\* A Wait whose timeout passes the request off as complete.
WaitTimeoutCompletes(h) ==
    /\ Running
    /\ UNCHANGED <<masterVars, chunkVars, msgVars>>
    /\ spinning = h
    /\ spinning' = 0
    /\ requests' = [requests EXCEPT ![h].Flag = 1]
    /\ last' = [NoCall EXCEPT !.op = "WaitTimeout", !.h = h,
                              !.pre = requests[h].Flag, !.outcome = "timeout"]
    /\ UNCHANGED <<mpi, proc>>

\* ... or when the interval has elapsed.
WaitTimeout(h) ==
    /\ Running
    /\ UNCHANGED <<masterVars, chunkVars, msgVars>>
    /\ spinning = h
    /\ spinning' = 0
    /\ last' = [NoCall EXCEPT !.op = "WaitTimeout", !.h = h,
                              !.pre = requests[h].Flag, !.outcome = "timeout"]
    /\ UNCHANGED <<requests, mpi, proc>>

Abort(h) ==
    /\ Running
    /\ UNCHANGED <<masterVars, chunkVars, msgVars>>
    /\ Idle(h)
    /\ LET res == AbortCall(requests[h])
       IN  \/ /\ Finish("Abort", h, res)
              /\ mpi' = IF res.mpi # <<>>
                        THEN [mpi EXCEPT ![requests[h].Request].st =
                                  IF @ = "active" THEN "cancelled" ELSE @]
                        ELSE mpi
              /\ UNCHANGED spinning
           \/ /\ res.mpi # <<>>
              /\ MpiFailure("Abort", h)
              /\ UNCHANGED reqVars

IsCreated(h) ==
    /\ Running
    /\ UNCHANGED <<masterVars, chunkVars, msgVars>>
    /\ Idle(h)
    /\ Finish("IsCreated", h, IsCreatedCall(requests[h]))
    /\ UNCHANGED <<mpi, spinning>>

\* TMpiRequest(TMpiRequest&& other): a new object is built from other
MoveConstruct(h, other) ==
    /\ Running
    /\ UNCHANGED <<masterVars, chunkVars, msgVars>>
    /\ ~requests[h].alive
    /\ Idle(other)
    /\ requests' = [requests EXCEPT ![h] = MoveFrom(requests[other]),
                                    ![other] = Clear(requests[other])]
    /\ last' = [op |-> "MoveConstruct", h |-> h, pre |-> -1, outcome |-> "ok",
                ret |-> -1, mpi |-> <<>>, other |-> other,
                source |-> requests[other]]
    /\ UNCHANGED <<mpi, spinning, proc>>

\* TMpiRequest& operator=(TMpiRequest&& other)
MoveAssign(h, other) ==
    /\ Running
    /\ UNCHANGED <<masterVars, chunkVars, msgVars>>
    /\ Idle(h)
    /\ Idle(other)
    /\ requests' = IF h # other
                   THEN [requests EXCEPT ![h] = MoveFrom(requests[other]),
                                         ![other] = Clear(requests[other])]
                   ELSE requests
    /\ last' = [op |-> "MoveAssign", h |-> h, pre |-> requests[h].Flag,
                outcome |-> "ok", ret |-> -1, mpi |-> <<>>, other |-> other,
                source |-> requests[other]]
    /\ UNCHANGED <<mpi, spinning, proc>>

Destroy(h) ==
    /\ Running
    /\ UNCHANGED <<masterVars, chunkVars, msgVars>>
    /\ Idle(h)
    /\ Finish("Destroy", h, DestructorCall(requests[h]))
    /\ UNCHANGED <<mpi, spinning>>

\* The transport finishes a transfer.
Progress(t) ==
    /\ Running
    /\ UNCHANGED <<masterVars, chunkVars, msgVars>>
    /\ mpi[t].st = "active"
    /\ mpi' = [mpi EXCEPT ![t] = Token("done", Count(t))]
    /\ last' = [NoCall EXCEPT !.op = "Progress"]
    /\ UNCHANGED <<requests, spinning, proc>>

(***************************************************************************)
(* The chunked transfers. One process sends sendData with the chunked      *)
(* WriteAsync, another receives into recvData with the chunked ReadAsync,  *)
(* both on the same tag; each then waits for its requests in the order of  *)
(* its vector. The block ceiling and the width of int are scaled down      *)
(* together: Cap stands for 1 << 30 and int holds -2*Cap .. 2*Cap - 1.     *)
(***************************************************************************)
RECURSIVE Pow2(_)
Pow2(n) == IF n = 0 THEN 1 ELSE 2 * Pow2(n - 1)

\* 1 << 30
Cap == Pow2(CapBits)

\* static_cast<int> (and the (int) cast) of a ui64 value
ToInt(x) == ((x + 2 * Cap) % (4 * Cap)) - 2 * Cap

\* the payload sizes: 0 .. 4 * cap
MaxSize == 4 * Cap

\* the transfers one exchange can start: a send and a receive per block
ChunkTokens == 1..(2 * 4)

\* The sender's bytes: position i holds a value of its own, never 0; the
\* receiver's buffer starts as zeros.
Payload(first, n) == [i \in 1..n |-> first + i]
Blank(n) == [i \in 1..n |-> 0]

\* const ui64 blockSize = (int)Min<ui64>(dataSize, 1 << 30)
DefaultBlockSize(dataSize) == ToInt(Min(dataSize, Cap))

\* const auto size = static_cast<const int>(Min<ui64>(blockSize, dataSize - offset))
BlockLen(blockSize, dataSize, offset) == ToInt(Min(blockSize, dataSize - offset))

\* A block transferred at the start of the buffer, whatever its offset.
BlockAtStart(offset) == 0

\* data + offset, as the index before the block's first byte
BlockAt(offset) == offset

NotStarted ==
    [pc |-> "start", blockSize |-> 0, offset |-> 0, next |-> 1,
     given |-> FALSE]

\* The tag of the exchange: the first one the allocator hands out.
ExchangeTag == TagTransform(1)

\* MPI_Isend / MPI_Irecv hand out the lowest free token.
FreshToken(t) ==
    /\ t \in DOMAIN mpi
    /\ mpi[t].st = "free"
    /\ \A u \in DOMAIN mpi : u < t => mpi[u].st # "free"

ChunkUnchanged ==
    UNCHANGED <<requests, spinning, masterVars, msgVars, last>>

ChunkMpiFailure ==
    /\ proc' = "mpi_aborted"
    /\ UNCHANGED <<mpi, chunkVars>>

\* MPI_Isend / MPI_Irecv refuse a negative count; MPI_SAFE_CALL then aborts
\* the group.
RefusedCount ==
    /\ proc' = "mpi_aborted"
    /\ UNCHANGED mpi

\* WriteAsync(data, dataSize, blockSize, destRank, tag, requests) called
\* with a block size of the caller's.
WriteAsyncWithBlockSize(blockSize) ==
    /\ Running
    /\ ChunkUnchanged
    /\ writer.pc = "start"
    /\ writer' = [writer EXCEPT !.pc = "loop", !.blockSize = blockSize,
                                !.offset = 0, !.given = TRUE]
    /\ UNCHANGED <<mpi, proc, sendData, recvData, reader, sendRequests,
                   recvRequests, wire, posted>>

\* ReadAsync(data, dataSize, blockSize, sourceRank, tag, requests) called
\* with a block size of the caller's.
ReadAsyncWithBlockSize(blockSize) ==
    /\ Running
    /\ ChunkUnchanged
    /\ reader.pc = "start"
    /\ reader' = [reader EXCEPT !.pc = "loop", !.blockSize = blockSize,
                                !.offset = 0, !.given = TRUE]
    /\ UNCHANGED <<mpi, proc, sendData, recvData, writer, sendRequests,
                   recvRequests, wire, posted>>

\* WriteAsync(data, dataSize, destRank, tag, requests): the block size is
\* chosen and the six-argument WriteAsync entered.
WriteAsyncChunked ==
    /\ Running
    /\ ChunkUnchanged
    /\ writer.pc = "start"
    /\ writer' = [writer EXCEPT !.pc = "loop",
                                !.blockSize = DefaultBlockSize(Len(sendData)),
                                !.offset = 0]
    /\ UNCHANGED <<mpi, proc, sendData, recvData, reader, sendRequests,
                   recvRequests, wire, posted>>

\* One turn of the loop of WriteAsync: the single-message WriteAsync sends
\* the block at offset with MPI_Isend, its request is pushed back.
WriteAsyncBlock ==
    /\ Running
    /\ ChunkUnchanged
    /\ writer.pc = "loop"
    /\ writer.offset < Len(sendData)
    /\ LET size == BlockLen(writer.blockSize, Len(sendData), writer.offset)
           from == BlockAt(writer.offset)
       IN  \/ \E t \in DOMAIN mpi :
                /\ size >= 0
                /\ FreshToken(t)
                /\ mpi' = [mpi EXCEPT ![t] = Token("active", 0)]
                /\ wire' = Append(wire,
                                  [tag |-> ExchangeTag, request |-> t,
                                   at |-> from, size |-> size,
                                   bytes |-> SubSeq(sendData, from + 1,
                                                    from + size)])
                /\ sendRequests' = Append(sendRequests, NewRequest(t))
                /\ writer' = [writer EXCEPT
                                 !.offset = @ + writer.blockSize]
                /\ UNCHANGED <<proc, sendData, recvData, reader, recvRequests,
                               posted>>
           \/ /\ size < 0
              /\ writer' = [writer EXCEPT !.pc = "refused"]
              /\ RefusedCount
              /\ UNCHANGED <<sendData, recvData, reader, sendRequests,
                             recvRequests, wire, posted>>
           \/ ChunkMpiFailure

\* The loop of WriteAsync ends: the call returns.
WriteAsyncReturn ==
    /\ Running
    /\ ChunkUnchanged
    /\ writer.pc = "loop"
    /\ ~(writer.offset < Len(sendData))
    /\ writer' = [writer EXCEPT !.pc = "issued"]
    /\ UNCHANGED <<mpi, proc, sendData, recvData, reader, sendRequests,
                   recvRequests, wire, posted>>

\* ReadAsync(data, dataSize, sourceRank, tag, requests)
ReadAsyncChunked ==
    /\ Running
    /\ ChunkUnchanged
    /\ reader.pc = "start"
    /\ reader' = [reader EXCEPT !.pc = "loop",
                                !.blockSize = DefaultBlockSize(Len(recvData)),
                                !.offset = 0]
    /\ UNCHANGED <<mpi, proc, sendData, recvData, writer, sendRequests,
                   recvRequests, wire, posted>>

\* One turn of the loop of ReadAsync: the single-message ReadAsync posts
\* the receive of the block at offset with MPI_Irecv.
ReadAsyncBlock ==
    /\ Running
    /\ ChunkUnchanged
    /\ reader.pc = "loop"
    /\ reader.offset < Len(recvData)
    /\ LET size == BlockLen(reader.blockSize, Len(recvData), reader.offset)
       IN  \/ \E t \in DOMAIN mpi :
                /\ size >= 0
                /\ FreshToken(t)
                /\ mpi' = [mpi EXCEPT ![t] = Token("active", 0)]
                /\ posted' = Append(posted,
                                    [tag |-> ExchangeTag, request |-> t,
                                     at |-> BlockAt(reader.offset),
                                     size |-> size])
                /\ recvRequests' = Append(recvRequests, NewRequest(t))
                /\ reader' = [reader EXCEPT
                                 !.offset = @ + reader.blockSize]
                /\ UNCHANGED <<proc, sendData, recvData, writer, sendRequests,
                               wire>>
           \/ /\ size < 0
              /\ reader' = [reader EXCEPT !.pc = "refused"]
              /\ RefusedCount
              /\ UNCHANGED <<sendData, recvData, writer, sendRequests,
                             recvRequests, wire, posted>>
           \/ ChunkMpiFailure

ReadAsyncReturn ==
    /\ Running
    /\ ChunkUnchanged
    /\ reader.pc = "loop"
    /\ ~(reader.offset < Len(recvData))
    /\ reader' = [reader EXCEPT !.pc = "issued"]
    /\ UNCHANGED <<mpi, proc, sendData, recvData, writer, sendRequests,
                   recvRequests, wire, posted>>

\* The transport. Between one pair of processes and on one tag, messages
\* are received in the order sent, by the receives in the order posted:
\* the oldest message is copied to the place of the oldest receive posted
\* on its tag, which is then done and knows the message's length.
Oldest(queue, i) == \A j \in 1..(i - 1) : queue[j].tag # queue[i].tag

Without(queue, i) == SubSeq(queue, 1, i - 1) \o SubSeq(queue, i + 1, Len(queue))

Store(buffer, at, bytes) ==
    [k \in 1..Len(buffer) |->
        IF at < k /\ k <= at + Len(bytes) THEN bytes[k - at] ELSE buffer[k]]

Deliver ==
    /\ Running
    /\ ChunkUnchanged
    /\ \E i \in 1..Len(wire), j \in 1..Len(posted) :
        /\ wire[i].tag = posted[j].tag
        /\ Oldest(wire, i)
        /\ Oldest(posted, j)
        /\ Len(wire[i].bytes) <= posted[j].size
        /\ recvData' = Store(recvData, posted[j].at, wire[i].bytes)
        /\ mpi' = [mpi EXCEPT
                     ![posted[j].request] = Token("done", Len(wire[i].bytes)),
                     ![wire[i].request] = Token("done", 0)]
        /\ wire' = Without(wire, i)
        /\ posted' = Without(posted, j)
    /\ UNCHANGED <<proc, sendData, writer, reader, sendRequests, recvRequests>>

\* A send is done as soon as the transport has taken a copy of the
\* message, which may be before it is received.
SendBuffered ==
    /\ Running
    /\ ChunkUnchanged
    /\ \E i \in 1..Len(wire) :
        /\ mpi[wire[i].request].st = "active"
        /\ mpi' = [mpi EXCEPT ![wire[i].request] = Token("done", 0)]
    /\ UNCHANGED <<proc, chunkVars>>

\* After its call has returned a side goes through its vector in order,
\* with WaitComplete ...
WaitNext(side, vector) ==
    /\ side.pc = "issued"
    /\ side.next <= Len(vector)
    /\ ~WaitCompleteBlocked(vector[side.next], mpi)

Waited(side, vector) ==
    [vector EXCEPT ![side.next] = WaitCompleteCall(@, mpi).req]

\* ... or, as AreRequestsComplete does, with IsComplete, going on to the
\* next request once one is complete.
Polled(side, vector) ==
    [vector EXCEPT ![side.next] = IsCompleteCall(@, mpi).req]

Advance(side, vector) ==
    [side EXCEPT !.next = IF vector[side.next].Flag = 1 THEN @ + 1 ELSE @]

SenderWaitComplete ==
    /\ Running
    /\ ChunkUnchanged
    /\ \/ /\ WaitNext(writer, sendRequests)
          /\ sendRequests' = Waited(writer, sendRequests)
          /\ writer' = Advance(writer, sendRequests')
          /\ UNCHANGED <<mpi, proc, sendData, recvData, reader, recvRequests,
                         wire, posted>>
       \/ /\ writer.pc = "issued" /\ writer.next <= Len(sendRequests)
          /\ ChunkMpiFailure

SenderIsComplete ==
    /\ Running
    /\ ChunkUnchanged
    /\ writer.pc = "issued"
    /\ writer.next <= Len(sendRequests)
    /\ \/ /\ sendRequests' = Polled(writer, sendRequests)
          /\ writer' = Advance(writer, sendRequests')
          /\ UNCHANGED <<mpi, proc, sendData, recvData, reader, recvRequests,
                         wire, posted>>
       \/ ChunkMpiFailure

ReceiverWaitComplete ==
    /\ Running
    /\ ChunkUnchanged
    /\ \/ /\ WaitNext(reader, recvRequests)
          /\ recvRequests' = Waited(reader, recvRequests)
          /\ reader' = Advance(reader, recvRequests')
          /\ UNCHANGED <<mpi, proc, sendData, recvData, writer, sendRequests,
                         wire, posted>>
       \/ /\ reader.pc = "issued" /\ reader.next <= Len(recvRequests)
          /\ ChunkMpiFailure

ReceiverIsComplete ==
    /\ Running
    /\ ChunkUnchanged
    /\ reader.pc = "issued"
    /\ reader.next <= Len(recvRequests)
    /\ \/ /\ recvRequests' = Polled(reader, recvRequests)
          /\ reader' = Advance(reader, recvRequests')
          /\ UNCHANGED <<mpi, proc, sendData, recvData, writer, sendRequests,
                         wire, posted>>
       \/ ChunkMpiFailure

\* No chunked transfer is under way.
NoExchange ==
    /\ sendData = <<>>
    /\ recvData = <<>>
    /\ writer = NotStarted
    /\ reader = NotStarted
    /\ sendRequests = <<>>
    /\ recvRequests = <<>>
    /\ wire = <<>>
    /\ posted = <<>>

(***************************************************************************)
(* Two chunked transfers at once between the same sender and the same      *)
(* receiver, each on a tag of its own. The buffers, the callers' places    *)
(* and the vectors are kept by transfer; the transport's queues and its    *)
(* table of tokens are the same for both.                                  *)
(***************************************************************************)
\* The tags of the two transfers: the first two the allocator hands out.
PairTags == {TagTransform(1), TagTransform(2)}

\* the payload sizes of the two transfers: none, a block, two blocks with
\* a shorter last one, two whole blocks
PairSizes == {0, Cap, Cap + 1, 2 * Cap}

\* the most blocks a payload is sent in
MostBlocks == MaxSize \div Cap

\* The token MPI_Isend / MPI_Irecv hands out for the k-th block of a side of
\* a transfer. Which token a call gets is the transport's choice and no
\* code reads its value: each block is given the one of its own place.
TokenOf(side, tag, k) ==
    (IF tag = ExchangeTag THEN 0 ELSE 2 * MostBlocks)
        + (IF side = "send" THEN 0 ELSE MostBlocks) + k

\* the tokens two transfers can be handed: a send and a receive per block
PairTokens == 1..(2 * 2 * MostBlocks)

\* A single-message call that hands the transport one tag whatever the
\* caller's.
TagArgumentShared(tag) == ExchangeTag

\* The tag argument of MPI_Isend / MPI_Irecv in the single-message
\* WriteAsync / ReadAsync: the tag of the caller.
TagArgument(tag) == tag

PairUnchanged == UNCHANGED <<requests, spinning, masterVars, msgVars>>

PairMpiFailure ==
    /\ proc' = "mpi_aborted"
    /\ UNCHANGED <<mpi, chunkVars, last>>

\* WriteAsync(data, dataSize, destRank, tag, requests) of the transfer on
\* tag: the block size is chosen and the six-argument WriteAsync entered.
WriteAsyncChunkedOn(tag) ==
    /\ Running
    /\ PairUnchanged
    /\ writer[tag].pc = "start"
    /\ writer' = [writer EXCEPT
                     ![tag] = [@ EXCEPT
                                  !.pc = "loop",
                                  !.blockSize =
                                      DefaultBlockSize(Len(sendData[tag])),
                                  !.offset = 0]]
    /\ UNCHANGED <<mpi, proc, sendData, recvData, reader, sendRequests,
                   recvRequests, wire, posted, last>>

\* One turn of its loop: the block at offset is sent with MPI_Isend on the
\* tag, the request is pushed back. The message is the k-th of the buffer
\* data.
WriteAsyncBlockOn(tag) ==
    /\ Running
    /\ PairUnchanged
    /\ writer[tag].pc = "loop"
    /\ writer[tag].offset < Len(sendData[tag])
    /\ LET size == BlockLen(writer[tag].blockSize, Len(sendData[tag]),
                            writer[tag].offset)
           from == BlockAt(writer[tag].offset)
       IN  \/ \E t \in {TokenOf("send", tag, Len(sendRequests[tag]) + 1)} :
                /\ size >= 0
                /\ mpi' = [mpi EXCEPT ![t] = Token("active", 0)]
                /\ wire' = Append(wire,
                                  [tag |-> TagArgument(tag), request |-> t,
                                   data |-> tag,
                                   k |-> Len(sendRequests[tag]) + 1,
                                   at |-> from, size |-> size,
                                   bytes |-> SubSeq(sendData[tag], from + 1,
                                                    from + size)])
                /\ sendRequests' = [sendRequests EXCEPT
                                       ![tag] = Append(@, NewRequest(t))]
                /\ writer' = [writer EXCEPT
                                 ![tag].offset = @ + writer[tag].blockSize]
                /\ UNCHANGED <<proc, sendData, recvData, reader, recvRequests,
                               posted, last>>
           \/ /\ size < 0
              /\ writer' = [writer EXCEPT ![tag].pc = "refused"]
              /\ RefusedCount
              /\ UNCHANGED <<sendData, recvData, reader, sendRequests,
                             recvRequests, wire, posted, last>>
           \/ PairMpiFailure

\* Its loop ends: the call returns.
WriteAsyncReturnOn(tag) ==
    /\ Running
    /\ PairUnchanged
    /\ writer[tag].pc = "loop"
    /\ ~(writer[tag].offset < Len(sendData[tag]))
    /\ writer' = [writer EXCEPT ![tag].pc = "issued"]
    /\ UNCHANGED <<mpi, proc, sendData, recvData, reader, sendRequests,
                   recvRequests, wire, posted, last>>

\* ReadAsync(data, dataSize, sourceRank, tag, requests) of the transfer on
\* tag.
ReadAsyncChunkedOn(tag) ==
    /\ Running
    /\ PairUnchanged
    /\ reader[tag].pc = "start"
    /\ reader' = [reader EXCEPT
                     ![tag] = [@ EXCEPT
                                  !.pc = "loop",
                                  !.blockSize =
                                      DefaultBlockSize(Len(recvData[tag])),
                                  !.offset = 0]]
    /\ UNCHANGED <<mpi, proc, sendData, recvData, writer, sendRequests,
                   recvRequests, wire, posted, last>>

\* One turn of its loop: the receive of the block at offset is posted with
\* MPI_Irecv on the tag. The receive is the k-th into the buffer data.
ReadAsyncBlockOn(tag) ==
    /\ Running
    /\ PairUnchanged
    /\ reader[tag].pc = "loop"
    /\ reader[tag].offset < Len(recvData[tag])
    /\ LET size == BlockLen(reader[tag].blockSize, Len(recvData[tag]),
                            reader[tag].offset)
       IN  \/ \E t \in {TokenOf("recv", tag, Len(recvRequests[tag]) + 1)} :
                /\ size >= 0
                /\ mpi' = [mpi EXCEPT ![t] = Token("active", 0)]
                /\ posted' = Append(posted,
                                    [tag |-> TagArgument(tag), request |-> t,
                                     data |-> tag,
                                     k |-> Len(recvRequests[tag]) + 1,
                                     at |-> BlockAt(reader[tag].offset),
                                     size |-> size])
                /\ recvRequests' = [recvRequests EXCEPT
                                       ![tag] = Append(@, NewRequest(t))]
                /\ reader' = [reader EXCEPT
                                 ![tag].offset = @ + reader[tag].blockSize]
                /\ UNCHANGED <<proc, sendData, recvData, writer, sendRequests,
                               wire, last>>
           \/ /\ size < 0
              /\ reader' = [reader EXCEPT ![tag].pc = "refused"]
              /\ RefusedCount
              /\ UNCHANGED <<sendData, recvData, writer, sendRequests,
                             recvRequests, wire, posted, last>>
           \/ PairMpiFailure

ReadAsyncReturnOn(tag) ==
    /\ Running
    /\ PairUnchanged
    /\ reader[tag].pc = "loop"
    /\ ~(reader[tag].offset < Len(recvData[tag]))
    /\ reader' = [reader EXCEPT ![tag].pc = "issued"]
    /\ UNCHANGED <<mpi, proc, sendData, recvData, writer, sendRequests,
                   recvRequests, wire, posted, last>>

\* The transport between the pair: the oldest message on a tag is copied
\* into the buffer of the oldest receive posted on that tag, at the place
\* that receive names. The match is kept as the last call, with the places
\* the two had in the queues.
DeliverTagged ==
    /\ Running
    /\ PairUnchanged
    /\ \E i \in 1..Len(wire), j \in 1..Len(posted) :
        /\ wire[i].tag = posted[j].tag
        /\ Oldest(wire, i)
        /\ Oldest(posted, j)
        /\ Len(wire[i].bytes) <= posted[j].size
        /\ recvData' = [recvData EXCEPT
                           ![posted[j].data] =
                               Store(@, posted[j].at, wire[i].bytes)]
        /\ mpi' = [mpi EXCEPT
                     ![posted[j].request] = Token("done", Len(wire[i].bytes)),
                     ![wire[i].request] = Token("done", 0)]
        /\ last' = [op |-> "Deliver",
                    sent |-> [data |-> wire[i].data, k |-> wire[i].k],
                    posted |-> [data |-> posted[j].data, k |-> posted[j].k],
                    wireAt |-> i, postedAt |-> j]
        /\ wire' = Without(wire, i)
        /\ posted' = Without(posted, j)
    /\ UNCHANGED <<proc, sendData, writer, reader, sendRequests, recvRequests>>

\* A send is done once the transport has taken a copy of the message.
SendBufferedTagged ==
    /\ Running
    /\ PairUnchanged
    /\ \E i \in 1..Len(wire) :
        /\ mpi[wire[i].request].st = "active"
        /\ mpi' = [mpi EXCEPT ![wire[i].request] = Token("done", 0)]
    /\ UNCHANGED <<proc, chunkVars, last>>

\* After its call has returned the sender of a transfer goes through the
\* vector of that transfer in order, with WaitComplete.
SenderWaitCompleteOn(tag) ==
    /\ Running
    /\ PairUnchanged
    /\ \/ /\ WaitNext(writer[tag], sendRequests[tag])
          /\ sendRequests' =
                 [sendRequests EXCEPT
                     ![tag] = Waited(writer[tag], sendRequests[tag])]
          /\ writer' = [writer EXCEPT
                           ![tag] = Advance(@, sendRequests'[tag])]
          /\ UNCHANGED <<mpi, proc, sendData, recvData, reader, recvRequests,
                         wire, posted, last>>
       \/ /\ writer[tag].pc = "issued"
          /\ writer[tag].next <= Len(sendRequests[tag])
          /\ PairMpiFailure

\* The receiver of a transfer does the same with its vector.
ReceiverWaitCompleteOn(tag) ==
    /\ Running
    /\ PairUnchanged
    /\ \/ /\ WaitNext(reader[tag], recvRequests[tag])
          /\ recvRequests' =
                 [recvRequests EXCEPT
                     ![tag] = Waited(reader[tag], recvRequests[tag])]
          /\ reader' = [reader EXCEPT
                           ![tag] = Advance(@, recvRequests'[tag])]
          /\ UNCHANGED <<mpi, proc, sendData, recvData, writer, sendRequests,
                         wire, posted, last>>
       \/ /\ reader[tag].pc = "issued"
          /\ reader[tag].next <= Len(recvRequests[tag])
          /\ PairMpiFailure

(***************************************************************************)
(* The typed messages. One process sends values with Send<T>; on the       *)
(* receiving process each thread calls Receive<T> on a tag of its own, the *)
(* type of a tag being agreed on beforehand. int is scaled as for the      *)
(* chunked transfers.                                                      *)
(***************************************************************************)
MsgTypes == {"pod", "serialized"}

\* std::is_pod<T>::value
IsPod(ty) == ty = "pod"

\* sizeof(T) of the fixed-layout type
SizeOf == MaxLen

\* The tag thread th receives on: the th-th tag of the allocator.
MsgTag(th) == TagTransform(th)

\* The n-th value sent: a fixed-layout value is its sizeof(T) bytes, any
\* other value a vector of up to MaxLen elements; values sent one after
\* the other differ in content and, for vectors, in length.
ValueOf(ty, n) ==
    IF IsPod(ty) THEN [i \in 1..SizeOf |-> n + i]
    ELSE [i \in 1..(n % (MaxLen + 1)) |-> n + i]

\* ::Save(&out, value) and ::Load(&input, result) of a vector: the number
\* of elements, then the elements.
Save(v) == <<Len(v)>> \o v

Load(buffer) ==
    IF buffer = <<>> THEN <<>>
    ELSE [i \in 1..Min(buffer[1], Len(buffer) - 1) |-> buffer[i + 1]]

\* A Send that writes the raw bytes of every type.
SendBufferRaw(ty, v) == v

\* Send(value, rank, tag): the bytes handed to Write
SendBuffer(ty, v) == IF IsPod(ty) THEN v ELSE Save(v)

\* Receive<T>: the value made of the bytes received
ReceiveValue(ty, buffer) == IF IsPod(ty) THEN buffer ELSE Load(buffer)

\* A DynamicReceive whose buffer has one size for all messages.
ReceiveBufferFixed(size, bytes) ==
    [k \in 1..(MaxLen + 2) |-> IF k <= Len(bytes) THEN bytes[k] ELSE 0]

\* DynamicReceive: data.Resize(size), then MPI_Recv of at most size bytes
\* into it
ReceiveBuffer(size, bytes) ==
    [k \in 1..size |-> IF k <= Len(bytes) THEN bytes[k] ELSE 0]

NotReceiving ==
    [pc |-> "idle", request |-> DeadRequest, buffer |-> <<>>, probed |-> 0,
     size |-> 0]

\* the tokens MPI_Irecv can hand out in one run
MsgTokens == 1..(MaxSends + NumThreads)

\* The place of the oldest entry of a queue on a tag (0: there is none).
OldestOn(queue, tag) ==
    IF \E i \in 1..Len(queue) : queue[i].tag = tag
    THEN CHOOSE i \in 1..Len(queue) : queue[i].tag = tag /\ Oldest(queue, i)
    ELSE 0

MsgCall(op, th, ret, calls) ==
    [op |-> op, h |-> th, pre |-> -1, outcome |-> "ok", ret |-> ret,
     mpi |-> calls]

MsgFailure(op, th) ==
    /\ last' = [op |-> op, h |-> th, pre |-> -1, outcome |-> "mpi_abort",
                ret |-> -1, mpi |-> <<>>]
    /\ proc' = "mpi_aborted"
    /\ UNCHANGED <<mpi, wire, posted, msgVars>>

MsgUnchanged ==
    UNCHANGED <<requests, spinning, masterVars, sendData, recvData, writer,
                reader, sendRequests, recvRequests>>

MsgTags == {MsgTag(th) : th \in Threads}

RECURSIVE TotalLen(_, _)
TotalLen(log, keys) ==
    IF keys = {} THEN 0
    ELSE LET k == CHOOSE x \in keys : TRUE
         IN  Len(log[k]) + TotalLen(log, keys \ {k})

\* how many values have been sent so far
NumSent == TotalLen(sent, MsgTags)

\* void Send(const T& value, int rank, int tag): SendPod writes the
\* sizeof(value) bytes of the value, the other branch the serialized
\* buffer with its size as int; Write is one MPI_Send, which refuses a
\* negative count.
Send(tag) ==
    /\ Running
    /\ MsgUnchanged
    /\ NumSent < MaxSends
    /\ LET ty == tagType[tag]
           v == ValueOf(ty, NumSent + 1)
           buffer == SendBuffer(ty, v)
           count == ToInt(Len(buffer))
       IN  IF count < 0
           THEN MsgFailure("Send", 0)
           ELSE \/ /\ wire' = Append(wire, [tag |-> tag, id |-> NumSent + 1,
                                             bytes |-> SubSeq(buffer, 1, count)])
                   /\ sent' = [sent EXCEPT ![tag] = Append(@, v)]
                   /\ last' = MsgCall("Send", 0, -1, <<"MPI_Send">>)
                   /\ UNCHANGED <<mpi, posted, rx, received, tagType, proc>>
                \/ MsgFailure("Send", 0)

\* T Receive(int rank, int tag) of a fixed-layout T, up to the return of
\* ReceivePodAsync: MPI_Irecv of sizeof(T) bytes into result.
ReceivePodAsync(th) ==
    /\ Running
    /\ MsgUnchanged
    /\ rx[th].pc = "idle"
    /\ IsPod(tagType[MsgTag(th)])
    /\ \/ \E t \in MsgTokens :
            /\ FreshToken(t)
            /\ mpi' = [mpi EXCEPT ![t] = Token("active", 0)]
            /\ posted' = Append(posted,
                                [tag |-> MsgTag(th), request |-> t,
                                 thread |-> th, size |-> ToInt(SizeOf)])
            /\ rx' = [rx EXCEPT ![th] =
                         [NotReceiving EXCEPT !.pc = "waiting",
                                              !.request = NewRequest(t),
                                              !.buffer = Blank(SizeOf)]]
            /\ last' = MsgCall("ReceivePodAsync", th, -1, <<"MPI_Irecv">>)
            /\ UNCHANGED <<wire, sent, received, tagType, proc>>
       \/ MsgFailure("ReceivePodAsync", th)

\* The transport gives the oldest message on a tag to the oldest receive
\* posted on that tag.
DeliverPosted ==
    /\ Running
    /\ MsgUnchanged
    /\ \E i \in 1..Len(wire), j \in 1..Len(posted) :
        /\ wire[i].tag = posted[j].tag
        /\ Oldest(wire, i)
        /\ Oldest(posted, j)
        /\ Len(wire[i].bytes) <= posted[j].size
        /\ rx' = [rx EXCEPT ![posted[j].thread].buffer =
                     Store(@, 0, wire[i].bytes)]
        /\ mpi' = [mpi EXCEPT
                     ![posted[j].request] = Token("done", Len(wire[i].bytes))]
        /\ wire' = Without(wire, i)
        /\ posted' = Without(posted, j)
    /\ last' = [NoCall EXCEPT !.op = "Deliver"]
    /\ UNCHANGED <<sent, received, tagType, proc>>

\* Receive of a fixed-layout T, from WaitComplete() on the temporary
\* request to the return of result; the temporary is destroyed.
ReceivePodWait(th) ==
    /\ Running
    /\ MsgUnchanged
    /\ rx[th].pc = "waiting"
    /\ LET res == WaitCompleteCall(rx[th].request, mpi)
           gone == DestructorCall(res.req)
           tag == MsgTag(th)
       IN  \/ /\ ~WaitCompleteBlocked(rx[th].request, mpi)
              /\ received' = [received EXCEPT ![tag] =
                                 Append(@, ReceiveValue(tagType[tag],
                                                        rx[th].buffer))]
              /\ rx' = [rx EXCEPT ![th] = NotReceiving]
              /\ last' = MsgCall("Receive", th, -1, res.mpi)
              /\ proc' = IF gone.outcome = "fatal" THEN "crashed" ELSE proc
              /\ UNCHANGED <<mpi, wire, posted, sent, tagType>>
           \/ MsgFailure("Receive", th)

\* TBuffer DynamicReceive(int rank, int tag), up to the size: MPI_Probe
\* returns when a message is pending on the tag, with its status;
\* MPI_Get_count reads the length from it.
DynamicReceiveProbe(th) ==
    /\ Running
    /\ MsgUnchanged
    /\ rx[th].pc = "idle"
    /\ ~IsPod(tagType[MsgTag(th)])
    /\ LET i == OldestOn(wire, MsgTag(th))
       IN  \/ /\ i # 0
              /\ rx' = [rx EXCEPT ![th] =
                           [NotReceiving EXCEPT
                               !.pc = "probed",
                               !.probed = wire[i].id,
                               !.size = ToInt(Len(wire[i].bytes))]]
              /\ last' = MsgCall("DynamicReceiveProbe", th, -1,
                                 <<"MPI_Probe", "MPI_Get_count">>)
              /\ UNCHANGED <<mpi, wire, posted, sent, received, tagType, proc>>
           \/ MsgFailure("DynamicReceive", th)

\* DynamicReceive from data.Resize to the return, and Receive of a
\* serialized T to its return: MPI_Recv takes the oldest message on the
\* tag, which must fit; Load makes the value.
DynamicReceiveRecv(th) ==
    /\ Running
    /\ MsgUnchanged
    /\ rx[th].pc = "probed"
    /\ LET tag == MsgTag(th)
           i == OldestOn(wire, tag)
           buffer == ReceiveBuffer(rx[th].size, wire[i].bytes)
       IN  \/ /\ i # 0
              /\ Len(wire[i].bytes) <= rx[th].size
              /\ wire' = Without(wire, i)
              /\ received' = [received EXCEPT ![tag] =
                                 Append(@, ReceiveValue(tagType[tag], buffer))]
              /\ rx' = [rx EXCEPT ![th] = NotReceiving]
              /\ last' = [op |-> "DynamicReceive", h |-> th,
                          pre |-> rx[th].size, outcome |-> "ok",
                          ret |-> Len(buffer), mpi |-> <<"MPI_Recv">>,
                          before |-> wire, buffer |-> buffer,
                          probed |-> rx[th].probed, taken |-> wire[i].id]
              /\ UNCHANGED <<mpi, posted, sent, tagType, proc>>
           \/ MsgFailure("DynamicReceive", th)

\* bool HasMessage(int rank, int tag): MPI_Iprobe
HasMessage(th) ==
    /\ Running
    /\ MsgUnchanged
    /\ rx[th].pc = "idle"
    /\ \/ /\ last' = MsgCall("HasMessage", th,
                             IF OldestOn(wire, MsgTag(th)) # 0 THEN 1 ELSE 0,
                             <<"MPI_Iprobe">>)
          /\ UNCHANGED <<mpi, wire, posted, msgVars, proc>>
       \/ MsgFailure("HasMessage", th)

\* No typed message has been sent or asked for.
NoMessages ==
    /\ rx = <<>>
    /\ sent = <<>>
    /\ received = <<>>
    /\ tagType = <<>>

\* No request object exists.
NoRequests ==
    /\ requests = [h \in Handles |-> DeadRequest]
    /\ mpi = [t \in Tokens |-> Token("free", 0)]
    /\ spinning = 0

\* The manager of a master on which nothing has been called.
FreshManager ==
    /\ Counter = 0
    /\ callers = [th \in Threads |-> NotCalling]
    /\ tags = <<>>
    /\ inboxes = {}
    /\ lap = 0

Init ==
    /\ NoRequests
    /\ NoExchange
    /\ NoMessages
    /\ FreshManager
    /\ HostId = 0
    /\ UseBSendForTasks = FALSE
    /\ last = NoCall
    /\ proc = "running"

Next ==
    \/ \E h \in Handles : Construct(h)
    \/ \E h \in Handles : ReadAsync(h)
    \/ \E h \in Handles : WriteAsync(h)
    \/ \E h \in Handles : IsComplete(h)
    \/ \E h \in Handles : WaitComplete(h)
    \/ \E h \in Handles : ReceivedBytes(h)
    \/ \E h \in Handles : Wait(h)
    \/ \E h \in Handles : WaitSpin(h)
    \/ \E h \in Handles : WaitTimeout(h)
    \/ \E h \in Handles : Abort(h)
    \/ \E h \in Handles : IsCreated(h)
    \/ \E h, other \in Handles : MoveConstruct(h, other)
    \/ \E h, other \in Handles : MoveAssign(h, other)
    \/ \E h \in Handles : Destroy(h)
    \/ \E t \in Tokens : Progress(t)

Spec == Init /\ [][Next]_vars

\* The manager after Start(): a master or a worker, sending tasks with
\* MPI_Bsend or with MPI_Send.
InitMaster ==
    /\ NoRequests
    /\ NoExchange
    /\ NoMessages
    /\ FreshManager
    /\ HostId \in {0, 1}
    /\ UseBSendForTasks \in BOOLEAN
    /\ last = NoCall
    /\ proc = "running"

NextMaster ==
    \/ \E th \in Threads : NextCommunicationTagIncrement(th)
    \/ \E th \in Threads : NextCommunicationTagReturn(th)
    \/ ManyCalls
    \/ \E taskSize \in TaskSizes, localId \in DeviceIds :
          SendTask(taskSize, localId)
    \/ GetDevices
    \/ GetDeviceProperties

SpecMaster == InitMaster /\ [][NextMaster]_vars

\* A sender with a payload of any size up to 4 * cap and a receiver with a
\* buffer of that size, before either has called anything.
InitChunk ==
    /\ requests = [h \in Handles |-> DeadRequest]
    /\ spinning = 0
    /\ mpi = [t \in ChunkTokens |-> Token("free", 0)]
    /\ NoMessages
    /\ FreshManager
    /\ HostId = 0
    /\ UseBSendForTasks = FALSE
    /\ \E n \in 0..MaxSize, first \in {0, 1} :
        /\ sendData = Payload(first, n)
        /\ recvData = Blank(n)
    /\ writer = NotStarted
    /\ reader = NotStarted
    /\ sendRequests = <<>>
    /\ recvRequests = <<>>
    /\ wire = <<>>
    /\ posted = <<>>
    /\ last = NoCall
    /\ proc = "running"

NextChunk ==
    \/ WriteAsyncChunked
    \/ WriteAsyncBlock
    \/ WriteAsyncReturn
    \/ ReadAsyncChunked
    \/ ReadAsyncBlock
    \/ ReadAsyncReturn
    \/ Deliver
    \/ SendBuffered
    \/ SenderWaitComplete
    \/ SenderIsComplete
    \/ ReceiverWaitComplete
    \/ ReceiverIsComplete

SpecChunk == InitChunk /\ [][NextChunk]_vars

\* Two processes that have agreed on a type for each tag, before anything is
\* sent.
InitMsg ==
    /\ requests = [h \in Handles |-> DeadRequest]
    /\ spinning = 0
    /\ mpi = [t \in MsgTokens |-> Token("free", 0)]
    /\ NoExchange
    /\ FreshManager
    /\ HostId = 0
    /\ UseBSendForTasks = FALSE
    /\ rx = [th \in Threads |-> NotReceiving]
    /\ sent = [tag \in MsgTags |-> <<>>]
    /\ received = [tag \in MsgTags |-> <<>>]
    /\ tagType \in [MsgTags -> MsgTypes]
    /\ last = NoCall
    /\ proc = "running"

NextMsg ==
    \/ \E tag \in MsgTags : Send(tag)
    \/ \E th \in Threads : ReceivePodAsync(th)
    \/ DeliverPosted
    \/ \E th \in Threads : ReceivePodWait(th)
    \/ \E th \in Threads : DynamicReceiveProbe(th)
    \/ \E th \in Threads : DynamicReceiveRecv(th)
    \/ \E th \in Threads : HasMessage(th)

SpecMsg == InitMsg /\ [][NextMsg]_vars

\* The block sizes callers give: none, one byte, the ceiling and around
\* it, the largest int and the first value past it, and 2^32.
BlockSizes == {0, 1, Cap, Cap + 1, 2 * Cap - 1, 2 * Cap, 4 * Cap}

\* the tokens one chunked call of each side can be handed
LayoutTokens == 1..(2 * MaxSize + 2)

\* A request that was in the caller's vector before the call.
EarlierRequest == [alive |-> TRUE, Flag |-> 1, Request |-> 0, Status |-> 0]

\* A sender and a receiver about to make one chunked call each, with or
\* without a block size, on a vector that is empty or not; one of the two
\* has a buffer of any size up to 4 * cap, the other an empty one.
InitLayout ==
    /\ requests = [h \in Handles |-> DeadRequest]
    /\ spinning = 0
    /\ mpi = [t \in LayoutTokens |-> Token("free", 0)]
    /\ NoMessages
    /\ FreshManager
    /\ HostId = 0
    /\ UseBSendForTasks = FALSE
    /\ \E n \in 0..MaxSize :
        \/ sendData = Payload(0, n) /\ recvData = <<>>
        \/ sendData = <<>> /\ recvData = Blank(n)
    /\ writer = NotStarted
    /\ reader = NotStarted
    /\ \E earlier \in {<<>>, <<EarlierRequest>>} :
        /\ sendRequests = earlier
        /\ recvRequests = earlier
    /\ wire = <<>>
    /\ posted = <<>>
    /\ last = NoCall
    /\ proc = "running"

NextLayout ==
    \/ WriteAsyncChunked
    \/ \E blockSize \in BlockSizes : WriteAsyncWithBlockSize(blockSize)
    \/ WriteAsyncBlock
    \/ WriteAsyncReturn
    \/ ReadAsyncChunked
    \/ \E blockSize \in BlockSizes : ReadAsyncWithBlockSize(blockSize)
    \/ ReadAsyncBlock
    \/ ReadAsyncReturn

SpecLayout == InitLayout /\ [][NextLayout]_vars

\* The first byte values of the two payloads: no byte of one transfer
\* equals a byte of the other.
FirstOf(tag) == IF tag = ExchangeTag THEN 0 ELSE MaxSize

\* A sender with two payloads and a receiver with a buffer for each, the
\* two transfers agreed on two tags, before any call.
InitPair ==
    /\ requests = [h \in Handles |-> DeadRequest]
    /\ spinning = 0
    /\ mpi = [t \in PairTokens |-> Token("free", 0)]
    /\ NoMessages
    /\ FreshManager
    /\ HostId = 0
    /\ UseBSendForTasks = FALSE
    /\ \E sizes \in [PairTags -> PairSizes] :
        /\ sendData = [tag \in PairTags |-> Payload(FirstOf(tag), sizes[tag])]
        /\ recvData = [tag \in PairTags |-> Blank(sizes[tag])]
    /\ writer = [tag \in PairTags |-> NotStarted]
    /\ reader = [tag \in PairTags |-> NotStarted]
    /\ sendRequests = [tag \in PairTags |-> <<>>]
    /\ recvRequests = [tag \in PairTags |-> <<>>]
    /\ wire = <<>>
    /\ posted = <<>>
    /\ last = NoCall
    /\ proc = "running"

NextPair ==
    \/ \E tag \in PairTags : WriteAsyncChunkedOn(tag)
    \/ \E tag \in PairTags : WriteAsyncBlockOn(tag)
    \/ \E tag \in PairTags : WriteAsyncReturnOn(tag)
    \/ \E tag \in PairTags : ReadAsyncChunkedOn(tag)
    \/ \E tag \in PairTags : ReadAsyncBlockOn(tag)
    \/ \E tag \in PairTags : ReadAsyncReturnOn(tag)
    \/ DeliverTagged
    \/ SendBufferedTagged
    \/ \E tag \in PairTags : SenderWaitCompleteOn(tag)
    \/ \E tag \in PairTags : ReceiverWaitCompleteOn(tag)

SpecPair == InitPair /\ [][NextPair]_vars

MasterOnlyOps ==
    {"NextCommunicationTag", "GetDevices", "GetDeviceProperties", "SendTask"}

\* C11: on a process whose host id is not 0 each of NextCommunicationTag,
\* GetDevices, GetDeviceProperties and SendTask ends in a fatal usage error
\* and has no effect: the counter is not advanced, no tag and no device
\* data is returned, no message is sent.
C11_MasterOnlyRejectedOnWorkers ==
    HostId # 0 =>
        /\ last.op \in MasterOnlyOps =>
               (last.outcome = "fatal" /\ last.ret = -1 /\ last.mpi = <<>>
                /\ proc = "crashed")
        /\ Counter = 0
        /\ tags = <<>>
        /\ inboxes = {}
        /\ \A th \in Threads : callers[th] = NotCalling

\* A worker has called the tag allocator.
C11_Witness ==
    /\ HostId # 0
    /\ last.op = "NextCommunicationTag"
    /\ last.outcome = "fatal"

(***************************************************************************)
(* The chunked round trip, checked under SpecChunk.                        *)
(***************************************************************************)
AllComplete(vector) == \A i \in 1..Len(vector) : vector[i].Flag = 1

ExchangeComplete ==
    /\ writer.pc = "issued"
    /\ reader.pc = "issued"
    /\ AllComplete(sendRequests)
    /\ AllComplete(recvRequests)

\* C1: for a payload of 0 < size <= 4 * cap sent with the chunked
\* WriteAsync and received with the chunked ReadAsync on the same tag, once
\* every request returned on both sides is complete the receiver's buffer
\* equals the sender's, byte for byte.
C1_ChunkedRoundTrip ==
    (0 < Len(sendData) /\ Len(sendData) <= 4 * Cap /\ ExchangeComplete) =>
        recvData = sendData

\* An exchange of more than one block, the last one shorter, is complete.
C1_Witness ==
    /\ ExchangeComplete
    /\ Len(sendData) > 2 * Cap
    /\ Len(sendData) % Cap # 0
    /\ Len(sendRequests) = (Len(sendData) \div Cap) + 1
    /\ recvData = sendData

(***************************************************************************)
(* Properties of the task dispatcher and the tag allocator, checked under  *)
(* SpecMaster.                                                             *)
(***************************************************************************)
TagsReturned == {tags[i] : i \in 1..Len(tags)}

\* C7 as stated: on the master SendTask sends a task exactly when its size
\* s satisfies 0 < s <= 32 MiB; any other size is a fatal usage error and
\* nothing is sent.
C7_SendTaskAcceptsUpToBufferSize ==
    (last.op = "SendTask" /\ IsMaster(HostId) /\ last.outcome # "mpi_abort") =>
        /\ last.outcome = "ok" <=> (0 < last.pre /\ last.pre <= BufferSize)
        /\ last.outcome # "ok" => (last.outcome = "fatal" /\ last.mpi = <<>>)

\* C8 as stated: every tag NextCommunicationTag returns is a strictly
\* positive 32-bit integer with its ten low bits set and a base value
\* tag >> 10 in 0 .. 2^16-2, whatever the counter.
C8_TagsPositiveWithLowBits ==
    (last.op = "NextCommunicationTag" /\ last.outcome = "ok") =>
        /\ last.ret > 0
        /\ last.ret <= IntMax
        /\ last.ret % TagShift = TagLowBits
        /\ last.ret \div TagShift \in 0..(CycleLen - 1)

\* C9 as stated: the tags returned by calls that lie within 2^16-1
\* consecutive calls are pairwise distinct, however the calls of several
\* threads interleave (tags holds fewer than 2^16-1 consecutive calls).
C9_TagsUniqueWithinCycle ==
    \A i, j \in 1..Len(tags) : i # j => tags[i] # tags[j]

\* C10 as stated: the inbox tag of a device with local id >= 0 is never a
\* tag the allocator returns.
C10_InboxTagsNeverAllocated ==
    \A d \in inboxes : GetTaskTag(d) \notin TagsReturned

\* C10 amended: the inbox tag of a device with local id in 0 .. 1021 is
\* never a tag the allocator returns (1023, the inbox tag of local id 1022,
\* is one).
C10_SmallInboxTagsNeverAllocated ==
    \A d \in inboxes :
        (0 <= d /\ d <= TagLowBits - 2) => GetTaskTag(d) \notin TagsReturned

\* A task has gone to the device with the largest such id while the
\* allocator has returned its smallest tag.
C10_Witness ==
    /\ TagLowBits - 2 \in inboxes
    /\ TagLowBits \in TagsReturned

(***************************************************************************)
(* Properties of the request life cycle, checked under Spec.               *)
(***************************************************************************)
\* C12: a transport primitive that returns a non-success status inside an
\* operation aborts the whole group: the operation hands nothing back to
\* its caller, and once the group is aborted no further step is taken.
C12_TransportFailureAbortsGroup ==
    /\ [](last.outcome = "mpi_abort" =>
             (proc = "mpi_aborted" /\ last.ret = -1 /\ last.mpi = <<>>))
    /\ [][proc # "mpi_aborted"]_vars

\* MPI_Wait has failed inside WaitComplete on a pending request.
C12_Witness ==
    /\ proc = "mpi_aborted"
    /\ last.op = "WaitComplete"
    /\ last.outcome = "mpi_abort"
    /\ last.pre = 0

UsageError == {"fatal", "throw"}

\* C2: IsComplete or WaitComplete on a request in the empty state (flag -1,
\* however it got there) is a usage error: the call returns no result, makes
\* no transport call and leaves the request empty.
C2_PollWaitOnEmptyIsUsageError ==
    (last.op \in {"IsComplete", "WaitComplete"} /\ last.pre = -1) =>
        /\ last.outcome \in UsageError
        /\ last.ret = -1
        /\ last.mpi = <<>>
        /\ requests[last.h].Flag = -1

\* WaitComplete has thrown on a request that was bound to a transfer and is
\* empty again (moved from, or cancelled).
C2_Witness ==
    /\ last.op = "WaitComplete"
    /\ last.pre = -1
    /\ last.outcome = "throw"
    /\ requests[last.h].Request # 0

\* C3: the destructor raises the "unfinished request" assertion exactly when
\* the request is pending; an empty or complete request is destroyed quietly.
C3_DestructorAssertsIffPending ==
    last.op = "Destroy" =>
        /\ last.outcome = "fatal" <=> last.pre = 0
        /\ last.outcome \in {"fatal", "ok"}
        /\ last.outcome = "ok" => ~requests[last.h].alive
        /\ last.outcome = "fatal" => proc = "crashed"

C3_Witness ==
    /\ last.op = "Destroy"
    /\ last.pre = 0
    /\ last.outcome = "fatal"

\* C4: a complete request stays complete under IsComplete, WaitComplete,
\* Wait(interval), Abort and ReceivedBytes; IsComplete then returns true,
\* WaitComplete returns, and neither calls MPI_Test or MPI_Wait.
CompletionKeepingOps ==
    {"IsComplete", "WaitComplete", "Wait", "WaitSpin", "WaitTimeout", "Abort",
     "ReceivedBytes"}

Calls(c) == {c.mpi[i] : i \in 1..Len(c.mpi)}

C4_CompletionIsAbsorbing ==
    (last.op \in CompletionKeepingOps /\ last.pre = 1) =>
        /\ requests[last.h].Flag = 1
        /\ Calls(last) \cap {"MPI_Test", "MPI_Wait"} = {}
        /\ last.op \in {"IsComplete", "WaitSpin"} =>
               last.outcome = "ok" /\ last.ret = 1
        /\ last.op = "WaitComplete" => last.outcome = "ok"
        /\ last.op = "WaitSpin" => spinning = 0

\* IsComplete has answered true, from the flag alone, on a request that a
\* transport call had completed before.
C4_Witness ==
    /\ last.op = "IsComplete"
    /\ last.pre = 1
    /\ last.ret = 1
    /\ last.mpi = <<>>
    /\ mpi[requests[last.h].Request].st = "done"

\* C5 as stated: Abort on a complete or an empty request is rejected as a
\* usage error.
C5_AbortRejectedOnCompleteOrEmpty ==
    (last.op = "Abort" /\ last.pre \in {-1, 1}) => last.outcome \in UsageError

\* C5 amended: Abort on an empty request is rejected (CB_ENSURE throws); on
\* a complete request it is not rejected: it returns normally, makes no
\* transport call and leaves the request complete.
C5_AbortRejectedOnEmptyOnly ==
    /\ (last.op = "Abort" /\ last.pre = -1) =>
           /\ last.outcome = "throw"
           /\ last.mpi = <<>>
           /\ requests[last.h].Flag = -1
    /\ (last.op = "Abort" /\ last.pre = 1) =>
           /\ last.outcome = "ok"
           /\ last.mpi = <<>>
           /\ requests[last.h].Flag = 1

C5_Witness ==
    /\ last.op = "Abort"
    /\ last.pre = 1
    /\ last.outcome = "ok"

\* C6: Abort on a pending request makes exactly one transport call,
\* MPI_Cancel, and when that succeeds the request is empty: IsCreated is
\* false, the destructor does not assert, and IsComplete, WaitComplete and
\* Abort on it are usage errors.
C6_AbortOnPendingEmpties ==
    (last.op = "Abort" /\ last.pre = 0) =>
        /\ last.outcome \in {"ok", "mpi_abort"}
        /\ last.outcome = "ok" =>
            LET r == requests[last.h]
            IN  /\ last.mpi = <<"MPI_Cancel">>
                /\ r.Flag = -1
                /\ IsCreatedCall(r).ret = 0
                /\ DestructorCall(r).outcome = "ok"
                /\ IsCompleteCall(r, mpi).outcome \in UsageError
                /\ WaitCompleteCall(r, mpi).outcome \in UsageError
                /\ AbortCall(r).outcome \in UsageError

C6_Witness ==
    /\ last.op = "Abort"
    /\ last.pre = 0
    /\ last.outcome = "ok"
    /\ mpi[requests[last.h].Request].st = "cancelled"

\* C17: DynamicReceive on a tag returns, once a message is pending there,
\* a buffer that is exactly the oldest pending message on the tag: its
\* length and its content; that message, the one whose size was probed, is
\* the only one consumed, every other pending message stays in place and
\* in order. HasMessage tells whether a message is pending and consumes
\* nothing.
C17_DynamicReceiveTakesOldest ==
    /\ (last.op = "DynamicReceive" /\ last.outcome = "ok") =>
          LET i == OldestOn(last.before, MsgTag(last.h))
          IN  /\ i # 0
              /\ last.buffer = last.before[i].bytes
              /\ last.ret = Len(last.before[i].bytes)
              /\ last.probed = last.before[i].id
              /\ last.taken = last.probed
              /\ wire = Without(last.before, i)
    /\ (last.op = "HasMessage" /\ last.outcome = "ok") =>
          (last.ret = 1 <=> OldestOn(wire, MsgTag(last.h)) # 0)

\* DynamicReceive has returned the older of two messages of different
\* lengths pending on its tag, with a message of another tag pending too.
C17_Witness ==
    /\ last.op = "DynamicReceive"
    /\ last.outcome = "ok"
    /\ last.buffer # <<>>
    /\ \E k \in 1..Len(wire) :
          /\ wire[k].tag = MsgTag(last.h)
          /\ Len(wire[k].bytes) # Len(last.buffer)
    /\ \E k \in 1..Len(wire) : wire[k].tag # MsgTag(last.h)

(***************************************************************************)
(* The layout of the chunked calls, checked under SpecLayout. The calls a  *)
(* side has issued are in its queue: wire for the sender, posted for the   *)
(* receiver.                                                               *)
(***************************************************************************)
CeilDiv(n, b) == (n + b - 1) \div b

\* The blocks a returned call with a block size b > 0 has issued are the
\* ceil(n / b) blocks of the layout, and its vector has got one request
\* for each after those it held.
LayoutOf(side, n, queue, vector) ==
    /\ n = 0 => queue = <<>>
    /\ side.blockSize > 0 => side.pc # "refused"
    /\ (side.pc = "issued" /\ side.blockSize > 0) =>
          LET b == side.blockSize
              held == Len(vector) - Len(queue)
          IN  /\ Len(queue) = CeilDiv(n, b)
              /\ \A i \in 1..Len(queue) :
                    /\ queue[i].at = (i - 1) * b
                    /\ queue[i].size = Min(i * b, n) - (i - 1) * b
                    /\ queue[i].tag = ExchangeTag
                    /\ vector[held + i] = NewRequest(queue[i].request)
              /\ held \in {0, 1}
              /\ \A i \in 1..held : vector[i] = EarlierRequest
              /\ ~side.given =>
                    /\ b = Min(n, Cap)
                    /\ \A i \in 1..Len(queue) : queue[i].size <= Cap

\* C14 as stated: a chunked send or receive of n bytes with a block size
\* b > 0 issues exactly ceil(n / b) transfers in increasing offset order,
\* the i-th covering [i*b, min((i+1)*b, n)), all on one tag, and appends
\* one request per block to the vector, leaving those in it alone; for
\* n = 0 it issues none; without a block size b = min(n, 2^30).
C14_ChunkLayout ==
    /\ LayoutOf(writer, Len(sendData), wire, sendRequests)
    /\ LayoutOf(reader, Len(recvData), posted, recvRequests)
    /\ \A i \in 1..Len(wire) :
          wire[i].bytes = SubSeq(sendData, wire[i].at + 1,
                                 wire[i].at + wire[i].size)

\* Every transfer a call has issued has a positive size, the
\* min(blockSize, dataSize - offset) of its offset, and a higher offset
\* than the one before, and no call has had its size refused.
SizesOf(side, n, queue) ==
    /\ side.pc # "refused"
    /\ \A i \in 1..Len(queue) :
          /\ queue[i].size > 0
          /\ queue[i].size = Min(side.blockSize, n - queue[i].at)
          /\ i > 1 => queue[i].at > queue[i - 1].at

\* C20 as stated: every chunked call ends after finitely many transfers,
\* whatever dataSize >= 0 and blockSize >= 0, and every size it passes to
\* the transport is positive and is min(blockSize, dataSize - offset),
\* unchanged by the conversion to int.
C20_ChunkedCallsTerminate ==
    /\ SizesOf(writer, Len(sendData), wire)
    /\ SizesOf(reader, Len(recvData), posted)

(***************************************************************************)
(* More properties of the request life cycle, checked under Spec.          *)
(***************************************************************************)
\* C15 as stated: ReceivedBytes gives a byte count only for a request whose
\* transfer is complete, and then the length of the message received; on
\* an empty request it is a usage error; on a pending request it is not
\* answered from the status record.
C15_ReceivedBytesOnlyAfterCompletion ==
    last.op = "ReceivedBytes" =>
        /\ last.pre = -1 => (last.outcome \in UsageError /\ last.mpi = <<>>)
        /\ last.pre = 0 => last.outcome # "ok"
        /\ last.outcome = "ok" =>
              /\ last.pre = 1
              /\ last.ret = Count(requests[last.h].Request)

\* C16: Wait(interval) polls with IsComplete and returns either when that
\* finds the request complete or when the interval has elapsed; the
\* timeout is no error: the process runs on, the request is as it was, a
\* pending one still pending and still not to be destroyed.
C16_TimedWaitReturnsOnCompleteOrTimeout ==
    /\ [](last.op = "WaitTimeout" =>
             /\ last.outcome = "timeout"
             /\ proc = "running"
             /\ spinning = 0
             /\ requests[last.h].Flag = last.pre
             /\ last.pre = 0 =>
                   DestructorCall(requests[last.h]).outcome = "fatal")
    /\ []((last.op = "WaitSpin" /\ last.outcome = "ok") =>
             /\ last.mpi \in {<<>>, <<"MPI_Test">>}
             /\ last.ret = 1 => (spinning = 0 /\ requests[last.h].Flag = 1)
             /\ last.ret = 0 =>
                   (spinning = last.h /\ requests[last.h].Flag = 0))
    /\ [][(spinning # 0 /\ spinning' = 0) =>
             \/ last'.op = "WaitTimeout"
             \/ last'.op = "WaitSpin" /\ last'.outcome = "ok"
                  /\ requests'[spinning].Flag = 1
             \/ last'.op = "WaitSpin" /\ last'.outcome \in UsageError]_vars

\* A Wait has timed out on a pending request whose transfer the transport
\* has already finished.
C16_Witness ==
    /\ last.op = "WaitTimeout"
    /\ requests[last.h].Flag = 0
    /\ mpi[requests[last.h].Request].st = "done"

\* C18: a move construction or a move assignment from another object
\* gives the target the state, token and status of the source and leaves
\* the source empty, free to be destroyed; no two objects that are not
\* empty hold the same token.
C18_MoveOnlyOwnership ==
    /\ (last.op \in {"MoveConstruct", "MoveAssign"} /\ last.h # last.other) =>
          /\ requests[last.h].Flag = last.source.Flag
          /\ requests[last.h].Request = last.source.Request
          /\ requests[last.h].Status = last.source.Status
          /\ requests[last.other].Flag = -1
          /\ DestructorCall(requests[last.other]).outcome = "ok"
    /\ \A h1, h2 \in Handles :
          (/\ h1 # h2
           /\ requests[h1].alive /\ requests[h1].Flag # -1
           /\ requests[h2].alive /\ requests[h2].Flag # -1) =>
              requests[h1].Request # requests[h2].Request

\* A pending request has been moved to another object.
C18_Witness ==
    /\ last.op \in {"MoveConstruct", "MoveAssign"}
    /\ last.h # last.other
    /\ last.source.Flag = 0
    /\ requests[last.h].Flag = 0

\* C19 as stated: an object whose request is pending gives up its token
\* only with a fatal assertion, by destruction or as the target of a move
\* assignment alike, so that a transfer the transport still works on is
\* always held by a pending request.
C19_NoTransferLostSilently ==
    /\ (/\ last.op \in {"Destroy", "MoveAssign"}
        /\ last.pre = 0
        /\ last.op = "MoveAssign" => last.h # last.other) =>
          last.outcome = "fatal"
    /\ proc = "running" =>
          \A t \in Tokens :
              mpi[t].st = "active" =>
                  \E h \in Handles : /\ requests[h].alive
                                      /\ requests[h].Flag = 0
                                      /\ requests[h].Request = t

(***************************************************************************)
(* Two transfers on two tags, checked under SpecPair.                      *)
(***************************************************************************)
TransferComplete(tag) ==
    /\ writer[tag].pc = "issued"
    /\ reader[tag].pc = "issued"
    /\ AllComplete(sendRequests[tag])
    /\ AllComplete(recvRequests[tag])

\* C21: with two chunked transfers between the same sender and receiver on
\* two different tags, in every interleaving of their sends, receives and
\* completions, a transfer whose requests are all complete has left in its
\* receiver's buffer the buffer sent under its tag, and every message the
\* transport matches is the k-th chunk sent of a transfer with the k-th
\* receive posted of the same transfer.
C21_IndependentExchanges ==
    /\ \A tag \in PairTags :
           TransferComplete(tag) => recvData[tag] = sendData[tag]
    /\ last.op = "Deliver" => last.sent = last.posted

\* A transfer of two chunks is complete; its last message was matched from
\* behind an older message of the other transfer, with a receive posted
\* after an older receive of the other transfer.
C21_Witness ==
    \E tag \in PairTags :
        /\ TransferComplete(tag)
        /\ Len(sendRequests[tag]) = 2
        /\ last.op = "Deliver"
        /\ last.sent = [data |-> tag, k |-> 2]
        /\ last.wireAt > 1
        /\ last.postedAt > 1

====
